---- MODULE Spec2Model ----
(***************************************************************************)
(* A model of analyze.py: the batch pipeline that reads                    *)
(* input/market_history.csv, filters and normalises the Counter-Strike 2   *)
(* rows, aggregates them and writes four JSON documents and index.html.    *)
(*                                                                         *)
(* Text is modelled as a sequence of one-character strings, so that        *)
(* strip(), lower() and the substring test `in` work on characters.        *)
(* A value of a data-frame cell is a record [kind, v, s]:                  *)
(*   kind = "str"  : a Python str, its characters in s                     *)
(*   kind = "num"  : a number, v in tenths of a cent (1/1000 of the        *)
(*                   currency unit), s the text it was read from           *)
(*   kind = "date" : a timestamp of year 1900, v = month * 100 + day       *)
(*   kind = "nan"  : NaN / NaT                                             *)
(*   kind = "none" : Python None                                           *)
(***************************************************************************)
EXTENDS Integers, Sequences, FiniteSets, TLC

\* ------------------------------------------------------------------ bounds
\* Rows of the input file.
MaxRows == 3
\* Whitespace characters put on each side of a type label (SpecType).
MaxPad == 1
\* Characters of a raw header (SpecHeader).
MaxHdrLen == 3

\* ------------------------------------------------------------------ values
StrV(chars) == [kind |-> "str", v |-> 0, s |-> chars]
NumV(n, chars) == [kind |-> "num", v |-> n, s |-> chars]
DateV(m, d) == [kind |-> "date", v |-> m * 100 + d, s |-> <<>>]
NaN == [kind |-> "nan", v |-> 0, s |-> <<>>]
None == [kind |-> "none", v |-> 0, s |-> <<>>]

\* pd.isna / dropna: NaN, NaT and None are missing.
IsNa(val) == val.kind \in {"nan", "none"}

\* str(value): the text of a str; of a number, the text it was read from.
Str(val) == val.s

\* ------------------------------------------------------------------ text
\* The characters str.strip() removes (ASCII whitespace of the model).
WS == {" ", "\t"}

UpperCase ==
  <<"A","B","C","D","E","F","G","H","I","J","K","L","M",
    "N","O","P","Q","R","S","T","U","V","W","X","Y","Z">>

LowerCase ==
  <<"a","b","c","d","e","f","g","h","i","j","k","l","m",
    "n","o","p","q","r","s","t","u","v","w","x","y","z">>

LowerChar(c) ==
  IF \E i \in 1..26 : UpperCase[i] = c
  THEN LowerCase[CHOOSE i \in 1..26 : UpperCase[i] = c]
  ELSE c

\* str.lower()
Lower(chars) == [i \in 1..Len(chars) |-> LowerChar(chars[i])]

RECURSIVE LStrip(_, _)
LStrip(chars, cs) ==
  IF chars # <<>> /\ Head(chars) \in cs THEN LStrip(Tail(chars), cs) ELSE chars

RECURSIVE RStrip(_, _)
RStrip(chars, cs) ==
  IF chars # <<>> /\ chars[Len(chars)] \in cs
  THEN RStrip(SubSeq(chars, 1, Len(chars) - 1), cs)
  ELSE chars

\* str.strip(cs): every leading and trailing character of cs removed.
Strip(chars, cs) == RStrip(LStrip(chars, cs), cs)

\* Python's `sub in chars` for a non-empty sub.
Contains(chars, sub) ==
  \E i \in 1..(Len(chars) - Len(sub) + 1) : SubSeq(chars, i, i + Len(sub) - 1) = sub

\* ------------------------------------------------------------------ numbers
Digits == <<"0","1","2","3","4","5","6","7","8","9">>

IsDigit(c) == \E i \in 1..10 : Digits[i] = c

DigitVal(c) == (CHOOSE i \in 1..10 : Digits[i] = c) - 1

RECURSIVE DigitsVal(_)
DigitsVal(chars) ==
  IF chars = <<>> THEN 0
  ELSE DigitsVal(SubSeq(chars, 1, Len(chars) - 1)) * 10 + DigitVal(chars[Len(chars)])

AllDigits(chars) == chars # <<>> /\ \A i \in 1..Len(chars) : IsDigit(chars[i])

\* A decimal literal with decimal mark dec: [-]digits[dec digit]. The value is in
\* tenths, so one fractional digit is what the model's numbers can hold.
ParseNum(chars, dec) ==
  LET neg == chars # <<>> /\ Head(chars) = "-"
      body == IF neg THEN Tail(chars) ELSE chars
      sign == IF neg THEN -1 ELSE 1
      n == Len(body)
  IN  IF AllDigits(body)
      THEN [ok |-> TRUE, v |-> sign * DigitsVal(body) * 10]
      ELSE IF n >= 3 /\ body[n - 1] = dec /\ IsDigit(body[n])
              /\ AllDigits(SubSeq(body, 1, n - 2))
      THEN [ok |-> TRUE,
            v |-> sign * (DigitsVal(SubSeq(body, 1, n - 2)) * 10 + DigitVal(body[n]))]
      ELSE [ok |-> FALSE, v |-> 0]

\* round(x / 1000, 2) of a value in thousandths: the nearest hundredth, as an
\* integer number of hundredths. Arithmetic is exact here (no floating-point
\* error); the prices of RowDomain have an even last digit, so no amount lies
\* halfway between two hundredths.
Round2(x) == (x + 5) \div 10

\* ------------------------------------------------------------------ dates
MonthAbbr ==
  <<<<"j","a","n">>,
    <<"f","e","b">>,
    <<"m","a","r">>,
    <<"a","p","r">>,
    <<"m","a","y">>,
    <<"j","u","n">>,
    <<"j","u","l">>,
    <<"a","u","g">>,
    <<"s","e","p">>,
    <<"o","c","t">>,
    <<"n","o","v">>,
    <<"d","e","c">>>>

DaysInMonth == <<31, 28, 31, 30, 31, 30, 31, 31, 30, 31, 30, 31>>

\* One string against the format "%d %b": one or two digits of a day 1..31,
\* whitespace, a month abbreviation in any case, nothing after it; the date must
\* exist in the default year 1900. Anything else is NaT (errors="coerce").
ParseDate(chars) ==
  LET two == Len(chars) >= 2 /\ IsDigit(chars[1]) /\ IsDigit(chars[2])
      one == Len(chars) >= 1 /\ IsDigit(chars[1])
      nd == IF two THEN 2 ELSE IF one THEN 1 ELSE 0
      day == IF nd = 0 THEN 0 ELSE DigitsVal(SubSeq(chars, 1, nd))
      rest == SubSeq(chars, nd + 1, Len(chars))
      mon == Lower(LStrip(rest, WS))
  IN  IF /\ nd > 0
         /\ day \in 1..31
         /\ rest # <<>> /\ Head(rest) \in WS
         /\ \E m \in 1..12 : MonthAbbr[m] = mon /\ day <= DaysInMonth[m]
      THEN DateV(CHOOSE m \in 1..12 : MonthAbbr[m] = mon, day)
      ELSE NaN

\* ------------------------------------------------------------------ names
S_GameName == <<"G","a","m","e"," ","N","a","m","e">>
S_ActedOn == <<"A","c","t","e","d"," ","O","n">>
S_Type == <<"T","y","p","e">>
S_MarketName == <<"M","a","r","k","e","t"," ","N","a","m","e">>
S_Price == <<"P","r","i","c","e">>
S_Cents == <<"C","e","n","t","s">>
S_CS2 == <<"C","o","u","n","t","e","r","-","S","t","r","i","k","e"," ","2">>
S_purchase == <<"p","u","r","c","h","a","s","e">>
S_buy == <<"b","u","y">>
S_bought == <<"b","o","u","g","h","t">>
S_sale == <<"s","a","l","e">>
S_sell == <<"s","e","l","l">>
S_sold == <<"s","o","l","d">>
S_Capsule == <<"C","a","p","s","u","l","e">>
S_Case == <<"C","a","s","e">>
S_Charm == <<"C","h","a","r","m">>
S_Sticker == <<"S","t","i","c","k","e","r">>
S_None == <<"N","o","n","e">>

\* ------------------------------------------------------------------ loader
\* pd.read_csv(..., decimal=","): an empty field is NaN; a column whose every
\* non-empty field is a number (with "," as the decimal mark) is numeric; any
\* other column is an object column that keeps every field as the text it was.
ColumnIsNumeric(rows, j) ==
  \A i \in 1..Len(rows) : rows[i][j] = <<>> \/ ParseNum(rows[i][j], ",").ok

LoadCell(rows, i, j) ==
  IF rows[i][j] = <<>> THEN NaN
  ELSE IF ColumnIsNumeric(rows, j)
       THEN NumV(ParseNum(rows[i][j], ",").v, rows[i][j])
       ELSE StrV(rows[i][j])

read_csv(f) ==
  [columns |-> f.headers,
   rows |-> [i \in 1..Len(f.rows) |->
               [j \in 1..Len(f.headers) |-> LoadCell(f.rows, i, j)]]]

\* ------------------------------------------------------------------ columns
\* col.strip().strip('"').strip("'")
NormalizeHeader(col) == Strip(Strip(Strip(col, WS), {"\""}), {"'"})

NormalizeColumns(columns) == [j \in 1..Len(columns) |-> NormalizeHeader(columns[j])]

IsPriceCol(col) == Contains(col, S_Price) /\ Contains(col, S_Cents)

\* next((col for col in df.columns if ...), None); None is the empty text here.
FindPriceCol(columns) ==
  IF \E j \in 1..Len(columns) : IsPriceCol(columns[j])
  THEN columns[CHOOSE j \in 1..Len(columns) :
                 /\ IsPriceCol(columns[j])
                 /\ \A k \in 1..(j - 1) : ~IsPriceCol(columns[k])]
  ELSE <<>>

required_cols == <<S_GameName, S_ActedOn, S_Type, S_MarketName>>

InColumns(columns, col) == \E j \in 1..Len(columns) : columns[j] = col

missing_cols(columns) ==
  SelectSeq(required_cols, LAMBDA col : ~InColumns(columns, col))

ColIndex(columns, col) == CHOOSE j \in 1..Len(columns) : columns[j] = col

\* ------------------------------------------------------------------ row filter
\* A slip: the label compared without lower().
normalize_type_case_sensitive(type_val) ==
  IF IsNa(type_val) THEN None
  ELSE LET t == Strip(Str(type_val), WS)
       IN  IF t \in {S_purchase, S_buy, S_bought} THEN StrV(S_purchase)
           ELSE IF t \in {S_sale, S_sell, S_sold} THEN StrV(S_sale)
           ELSE StrV(t)

normalize_type(type_val) ==
  IF IsNa(type_val) THEN None
  ELSE LET t == Lower(Strip(Str(type_val), WS))
       IN  IF t \in {S_purchase, S_buy, S_bought} THEN StrV(S_purchase)
           ELSE IF t \in {S_sale, S_sell, S_sold} THEN StrV(S_sale)
           ELSE StrV(t)

\* A slip: a price that does not parse becomes 0 instead of NaN.
to_numeric_default(val) ==
  IF val.kind = "num" THEN NumV(val.v, val.s)
  ELSE IF val.kind = "str" /\ ParseNum(val.s, ".").ok
       THEN NumV(ParseNum(val.s, ".").v, val.s)
       ELSE NumV(0, val.s)

\* pd.to_numeric(value, errors="coerce"): a number stays; a text is parsed with
\* "." as the decimal mark and becomes NaN when that fails.
to_numeric(val) ==
  IF val.kind = "num" THEN NumV(val.v, val.s)
  ELSE IF val.kind = "str" /\ ParseNum(val.s, ".").ok
       THEN NumV(ParseNum(val.s, ".").v, val.s)
       ELSE NaN

\* pd.to_datetime(value, format="%d %b", errors="coerce")
to_datetime(val) == IF IsNa(val) THEN NaN ELSE ParseDate(Str(val))

\* One row of the frame as a record of the columns the script reads; idx is the
\* row's index label. Raw is the price value as loaded.
RowOf(d, price_col, i) ==
  [idx |-> i,
   Game |-> d.rows[i][ColIndex(d.columns, S_GameName)],
   ActedOn |-> d.rows[i][ColIndex(d.columns, S_ActedOn)],
   Type |-> d.rows[i][ColIndex(d.columns, S_Type)],
   MarketName |-> d.rows[i][ColIndex(d.columns, S_MarketName)],
   Price |-> d.rows[i][ColIndex(d.columns, price_col)]]

\* df[df["Game Name"] == "Counter-Strike 2"]
GameFilter(d, price_col) ==
  SelectSeq([i \in 1..Len(d.rows) |-> RowOf(d, price_col, i)],
            LAMBDA r : r.Game = StrV(S_CS2))

\* lines 45 and 49: the Type and price columns converted in place.
ConvertRow(r) ==
  [r EXCEPT !.Type = normalize_type(r.Type), !.Price = to_numeric(r.Price)]

\* dropna(subset=[price_col, "Acted On", "Type", "Market Name"])
DropNa(rs) ==
  SelectSeq(rs, LAMBDA r : ~IsNa(r.Price) /\ ~IsNa(r.ActedOn)
                           /\ ~IsNa(r.Type) /\ ~IsNa(r.MarketName))

\* lines 54-55: the date parsed, rows with NaT dropped.
ParseDates(rs) ==
  SelectSeq([i \in 1..Len(rs) |-> [rs[i] EXCEPT !.ActedOn = to_datetime(rs[i].ActedOn)]],
            LAMBDA r : ~IsNa(r.ActedOn))

FilterRows(d, price_col) ==
  LET cs2 == GameFilter(d, price_col)
      conv == [i \in 1..Len(cs2) |-> ConvertRow(cs2[i])]
  IN  ParseDates(DropNa(conv))

\* A slip: the frame tested for being non-empty only.
HasAnyTransactions(rs) == rs # <<>>

\* cs2_df["Type"].isin(["purchase", "sale"]).any()
HasValidTransactions(rs) ==
  \E i \in 1..Len(rs) : rs[i].Type \in {StrV(S_purchase), StrV(S_sale)}

\* ------------------------------------------------------------------ aggregator
OfType(rs, t) == SelectSeq(rs, LAMBDA r : r.Type = StrV(t))

RECURSIVE SumPrice(_)
SumPrice(rs) == IF rs = <<>> THEN 0 ELSE Head(rs).Price.v + SumPrice(Tail(rs))

NameCount(rs, name) == Cardinality({i \in 1..Len(rs) : rs[i].MarketName = name})

\* value_counts().idxmax(): the most frequent name, the first met among equals.
most_purchased_item(purchases) ==
  IF purchases = <<>> THEN S_None
  ELSE LET best(i) == \A k \in 1..Len(purchases) :
                        NameCount(purchases, purchases[k].MarketName)
                          <= NameCount(purchases, purchases[i].MarketName)
           first == CHOOSE i \in 1..Len(purchases) :
                      best(i) /\ \A k \in 1..(i - 1) : ~best(k)
       IN  Str(purchases[first].MarketName)

\* cs2_df.loc[cs2_df[price_col].idxmax()]: the first row of the highest price.
highest_transaction(rs) ==
  IF rs = <<>>
  THEN [market_name |-> S_None, price_eur |-> 0, type |-> <<>>]
  ELSE LET top(i) == \A k \in 1..Len(rs) : rs[k].Price.v <= rs[i].Price.v
           first == CHOOSE i \in 1..Len(rs) : top(i) /\ \A k \in 1..(i - 1) : ~top(k)
       IN  [market_name |-> Str(rs[first].MarketName),
            price_eur |-> Round2(rs[first].Price.v),
            type |-> Str(rs[first].Type)]

\* One group of groupby("Market Name").agg(...): the count and the sum of the
\* prices, and value_counts of the types, of the rows of one name.
ItemRecord(rs, name) ==
  [MarketName |-> Str(name),
   transaction_count |-> Len(SelectSeq(rs, LAMBDA r : r.MarketName = name)),
   total_eur |-> SumPrice(SelectSeq(rs, LAMBDA r : r.MarketName = name)),
   type_breakdown |->
     [t \in {Str(rs[i].Type) : i \in {k \in 1..Len(rs) : rs[k].MarketName = name}} |->
        Len(SelectSeq(rs, LAMBDA r : r.MarketName = name /\ Str(r.Type) = t))]]

\* A slip: the groups taken over the purchases and sales only.
item_details_known_types(rs) ==
  LET known == SelectSeq(rs, LAMBDA r : r.Type \in {StrV(S_purchase), StrV(S_sale)})
  IN  {ItemRecord(known, name) : name \in {known[i].MarketName : i \in 1..Len(known)}}

\* One record per name of cs2_df. The records are kept as a set: the order of the
\* list (by name) is left out.
item_details(rs) ==
  {ItemRecord(rs, name) : name \in {rs[i].MarketName : i \in 1..Len(rs)}}

\* A slip: the operands of the subtraction swapped.
net_flow_swapped(total_earned, total_spent) == total_spent - total_earned

net_flow(total_earned, total_spent) == total_earned - total_spent

\* Amounts of money: total_spent, total_earned, net_flow and price_eur are in
\* hundredths (rounded to 2 places); total_eur and the chart values are in
\* thousandths (the script does not round them).
Summary(rs) ==
  LET purchases == OfType(rs, S_purchase)
      sales == OfType(rs, S_sale)
      total_spent == SumPrice(purchases)
      total_earned == SumPrice(sales)
  IN  [total_spent |-> Round2(total_spent),
       total_earned |-> Round2(total_earned),
       net_flow |-> Round2(net_flow(total_earned, total_spent)),
       purchase_count |-> Len(purchases),
       sale_count |-> Len(sales),
       most_purchased_item |-> most_purchased_item(purchases),
       highest_transaction |-> highest_transaction(rs),
       item_details |-> item_details(rs)]

\* A slip: "Case" tested before "Capsule".
categorize_item_case_first(market_name) ==
  IF IsNa(market_name) THEN "Unknown"
  ELSE IF Contains(Str(market_name), S_Case) THEN "Cases"
  ELSE IF Contains(Str(market_name), S_Capsule) THEN "Capsules"
  ELSE IF Contains(Str(market_name), S_Charm) THEN "Charms"
  ELSE IF Contains(Str(market_name), S_Sticker) THEN "Stickers"
  ELSE "Weapons"

categorize_item(market_name) ==
  IF IsNa(market_name) THEN "Unknown"
  ELSE IF Contains(Str(market_name), S_Capsule) THEN "Capsules"
  ELSE IF Contains(Str(market_name), S_Case) THEN "Cases"
  ELSE IF Contains(Str(market_name), S_Charm) THEN "Charms"
  ELSE IF Contains(Str(market_name), S_Sticker) THEN "Stickers"
  ELSE "Weapons"

\* The columns of the unstacked (Category, Type) sums: the types that occur.
BarColumns(rs) == {Str(rs[i].Type) : i \in 1..Len(rs)}

\* melt(value_vars=["purchase", "sale"]) raises KeyError when a named column is
\* not in the frame.
BarRaises(rs) == ~({S_purchase, S_sale} \subseteq BarColumns(rs))

CategorySum(rs, c, t) ==
  SumPrice(SelectSeq(rs, LAMBDA r : categorize_item(r.MarketName) = c /\ r.Type = StrV(t)))

\* One record per category; the order of the list (by category) is left out.
bar_data(rs) ==
  {[Category |-> c,
    spent |-> CategorySum(rs, c, S_purchase),
    earned |-> CategorySum(rs, c, S_sale)] :
   c \in {categorize_item(rs[i].MarketName) : i \in 1..Len(rs)}}

\* groupby(["Date", "Market Name"]): Date is the day formatted "%Y-%m-%d", kept
\* here as month * 100 + day of the year 1900.
line_data(rs) ==
  {[Date |-> k[1],
    MarketName |-> k[2],
    value |-> SumPrice(SelectSeq(rs, LAMBDA r : r.ActedOn.v = k[1] /\ Str(r.MarketName) = k[2])),
    count |-> Len(SelectSeq(rs, LAMBDA r : r.ActedOn.v = k[1] /\ Str(r.MarketName) = k[2]))] :
   k \in {<<rs[i].ActedOn.v, Str(rs[i].MarketName)>> : i \in 1..Len(rs)}}

pie_data(purchase_count, sale_count) ==
  <<[name |-> "Purchases", value |-> purchase_count],
    [name |-> "Sales", value |-> sale_count]>>

\* ------------------------------------------------------------------ inputs
\* Header lines of the input file, as read_csv hands them over: one that the
\* column normaliser cleans, one without a price column, one whose Type header
\* is still quoted after cleaning.
HeaderChoices ==
  {<<<<" ","G","a","m","e"," ","N","a","m","e">>, <<"'","A","c","t","e","d"," ","O","n","'">>, <<"T","y","p","e">>, <<"\"","M","a","r","k","e","t"," ","N","a","m","e","\"">>, <<"P","r","i","c","e"," ","C","e","n","t","s">>>>,
   <<<<"G","a","m","e"," ","N","a","m","e">>, <<"A","c","t","e","d"," ","O","n">>, <<"T","y","p","e">>, <<"M","a","r","k","e","t"," ","N","a","m","e">>, <<"P","r","i","c","e">>>>,
   <<<<"G","a","m","e"," ","N","a","m","e">>, <<"A","c","t","e","d"," ","O","n">>, <<"'","\"","T","y","p","e","\"","'">>, <<"M","a","r","k","e","t"," ","N","a","m","e">>, <<"P","r","i","c","e"," ","C","e","n","t","s">>>>}

\* Rows of the input file, in the column order of the headers above: game name,
\* acted on, type, market name, price in cents. An empty field is a missing value.
RowDomain ==
  {<<<<"C","o","u","n","t","e","r","-","S","t","r","i","k","e"," ","2">>, <<"0","5"," ","J","a","n">>, <<"B","u","y">>, <<"C","a","s","e"," ","C","a","p","s","u","l","e">>, <<"0",",","6">>>>,
   <<<<"C","o","u","n","t","e","r","-","S","t","r","i","k","e"," ","2">>, <<"0","5"," ","J","a","n">>, <<"s","o","l","d">>, <<"C","a","s","e"," ","C","a","p","s","u","l","e">>, <<"1",",","2">>>>,
   <<<<"C","o","u","n","t","e","r","-","S","t","r","i","k","e"," ","2">>, <<"5"," ","f","e","b">>, <<" ","S","e","l","l">>, <<"S","t","i","c","k","e","r">>, <<"3">>>>,
   <<<<"C","o","u","n","t","e","r","-","S","t","r","i","k","e"," ","2">>, <<"0","5"," ","J","a","n">>, <<"p","u","r","c","h","a","s","e">>, <<"A","K">>, <<"3">>>>,
   <<<<"C","o","u","n","t","e","r","-","S","t","r","i","k","e"," ","2">>, <<"5"," ","f","e","b">>, <<"G","i","f","t">>, <<"C","h","a","r","m">>, <<"3">>>>,
   <<<<"C","o","u","n","t","e","r","-","S","t","r","i","k","e"," ","2">>, <<"0","5"," ","J","a","n">>, <<"B","O","U","G","H","T">>, <<"C","a","s","e">>, <<"-","2">>>>,
   <<<<"D","o","t","a"," ","2">>, <<"0","5"," ","J","a","n">>, <<"B","u","y">>, <<"A","K">>, <<"3">>>>,
   <<<<"C","o","u","n","t","e","r","-","S","t","r","i","k","e"," ","2">>, <<"0","5"," ","J","a","n">>, <<"B","u","y">>, <<"A","K">>, <<"f","r","e","e">>>>,
   <<<<"C","o","u","n","t","e","r","-","S","t","r","i","k","e"," ","2">>, <<"3","2"," ","F","o","o">>, <<"B","u","y">>, <<"A","K">>, <<"3">>>>,
   <<<<"C","o","u","n","t","e","r","-","S","t","r","i","k","e"," ","2">>, <<"0","5"," ","J","a","n">>, <<>>, <<"A","K">>, <<"3">>>>,
   <<<<"C","o","u","n","t","e","r","-","S","t","r","i","k","e"," ","2">>, <<"0","5"," ","J","a","n">>, <<"B","u","y">>, <<>>, <<"3">>>>,
   <<<<"C","o","u","n","t","e","r","-","S","t","r","i","k","e"," ","2">>, <<>>, <<"B","u","y">>, <<"A","K">>, <<"3">>>>}

\* ------------------------------------------------------------------ state
VARIABLES
  pc,            \* where the script is: "start", "loaded", ..., "exited"
  file,          \* input/market_history.csv: [exists, headers, rows]
  df,            \* the frame read_csv returned
  price_col,     \* the price column's name
  cs2_df,        \* the filtered rows
  summary_json,  \* output/summary.json
  bar_json,      \* output/bar_data.json
  line_json,     \* output/line_data.json
  pie_json,      \* output/pie_data.json
  written,       \* the artifacts written, in order
  exitCode,      \* the process's exit code, -1 while it runs
  error,         \* what ended the run: "" or the kind of the error
  arg,           \* the argument of a function applied on its own
  res            \* its result

vars == <<pc, file, df, price_col, cs2_df, summary_json, bar_json, line_json,
          pie_json, written, exitCode, error, arg, res>>

NoFrame == [columns |-> <<>>, rows |-> <<>>]

NoSummary ==
  [total_spent |-> 0, total_earned |-> 0, net_flow |-> 0,
   purchase_count |-> -1, sale_count |-> -1,
   most_purchased_item |-> <<>>,
   highest_transaction |-> [market_name |-> <<>>, price_eur |-> 0, type |-> <<>>],
   item_details |-> {}]

ScriptInit ==
  /\ pc = "start"
  /\ df = NoFrame
  /\ price_col = <<>>
  /\ cs2_df = <<>>
  /\ summary_json = NoSummary
  /\ bar_json = {}
  /\ line_json = {}
  /\ pie_json = <<>>
  /\ written = <<>>
  /\ exitCode = -1
  /\ error = ""

Init ==
  /\ ScriptInit
  /\ file \in {[exists |-> FALSE, headers |-> <<>>, rows |-> <<>>]}
              \cup {[exists |-> TRUE, headers |-> h, rows |-> <<>>] : h \in HeaderChoices}
  /\ arg = NaN
  /\ res = NaN

\* The export grows by one row before the script is run.
AppendRow(r) ==
  /\ pc = "start"
  /\ file.exists
  /\ Len(file.rows) < MaxRows
  /\ file' = [file EXCEPT !.rows = Append(@, r)]
  /\ UNCHANGED <<pc, df, price_col, cs2_df, summary_json, bar_json, line_json,
                 pie_json, written, exitCode, error, arg, res>>

\* exit(1) after the message of the given kind.
Exit1(kind) ==
  /\ pc' = "exited"
  /\ exitCode' = 1
  /\ error' = kind

\* lines 7-13
ReadCsv ==
  /\ pc = "start"
  /\ IF file.exists
     THEN /\ df' = read_csv(file)
          /\ pc' = "loaded"
          /\ UNCHANGED <<exitCode, error>>
     ELSE /\ Exit1("MissingFile")
          /\ UNCHANGED df
  /\ UNCHANGED <<file, price_col, cs2_df, summary_json, bar_json, line_json,
                 pie_json, written, arg, res>>

\* lines 15-28
CheckColumns ==
  /\ pc = "loaded"
  /\ LET columns == NormalizeColumns(df.columns)
     IN  /\ df' = [df EXCEPT !.columns = columns]
         /\ price_col' = FindPriceCol(columns)
         /\ IF FindPriceCol(columns) = <<>>
            THEN Exit1("NoPriceColumn")
            ELSE IF missing_cols(columns) # <<>>
            THEN Exit1("MissingColumns")
            ELSE /\ pc' = "columns"
                 /\ UNCHANGED <<exitCode, error>>
  /\ UNCHANGED <<file, cs2_df, summary_json, bar_json, line_json, pie_json,
                 written, arg, res>>

\* lines 31-56
Filter ==
  /\ pc = "columns"
  /\ cs2_df' = FilterRows(df, price_col)
  /\ pc' = "filtered"
  /\ UNCHANGED <<file, df, price_col, summary_json, bar_json, line_json, pie_json,
                 written, exitCode, error, arg, res>>

\* lines 59-61
CheckTransactions ==
  /\ pc = "filtered"
  /\ IF HasValidTransactions(cs2_df)
     THEN /\ pc' = "valid"
          /\ UNCHANGED <<exitCode, error>>
     ELSE Exit1("NoValidTransactions")
  /\ UNCHANGED <<file, df, price_col, cs2_df, summary_json, bar_json, line_json,
                 pie_json, written, arg, res>>

\* lines 64-104
WriteSummary ==
  /\ pc = "valid"
  /\ summary_json' = Summary(cs2_df)
  /\ written' = Append(written, "summary.json")
  /\ pc' = "summary"
  /\ UNCHANGED <<file, df, price_col, cs2_df, bar_json, line_json, pie_json,
                 exitCode, error, arg, res>>

\* lines 107-130; an uncaught KeyError ends the process with exit code 1.
WriteBarData ==
  /\ pc = "summary"
  /\ IF BarRaises(cs2_df)
     THEN /\ Exit1("KeyError")
          /\ UNCHANGED <<bar_json, written>>
     ELSE /\ bar_json' = bar_data(cs2_df)
          /\ written' = Append(written, "bar_data.json")
          /\ pc' = "bar"
          /\ UNCHANGED <<exitCode, error>>
  /\ UNCHANGED <<file, df, price_col, cs2_df, summary_json, line_json, pie_json,
                 arg, res>>

\* lines 132-145
WriteLineData ==
  /\ pc = "bar"
  /\ line_json' = line_data(cs2_df)
  /\ written' = Append(written, "line_data.json")
  /\ pc' = "line"
  /\ UNCHANGED <<file, df, price_col, cs2_df, summary_json, bar_json, pie_json,
                 exitCode, error, arg, res>>

\* lines 147-154
WritePieData ==
  /\ pc = "line"
  /\ pie_json' = pie_data(summary_json.purchase_count, summary_json.sale_count)
  /\ written' = Append(written, "pie_data.json")
  /\ pc' = "pie"
  /\ UNCHANGED <<file, df, price_col, cs2_df, summary_json, bar_json, line_json,
                 exitCode, error, arg, res>>

\* lines 156-433, then the script ends: exit code 0.
WriteIndexHtml ==
  /\ pc = "pie"
  /\ written' = Append(written, "index.html")
  /\ pc' = "exited"
  /\ exitCode' = 0
  /\ UNCHANGED <<file, df, price_col, cs2_df, summary_json, bar_json, line_json,
                 pie_json, error, arg, res>>

Next ==
  \/ \E r \in RowDomain : AppendRow(r)
  \/ ReadCsv
  \/ CheckColumns
  \/ Filter
  \/ CheckTransactions
  \/ WriteSummary
  \/ WriteBarData
  \/ WriteLineData
  \/ WritePieData
  \/ WriteIndexHtml

Spec == Init /\ [][Next]_vars

\* ------------------------------------------------------------------ normalize_type on its own
UpperChar(c) ==
  IF \E i \in 1..26 : LowerCase[i] = c
  THEN UpperCase[CHOOSE i \in 1..26 : LowerCase[i] = c]
  ELSE c

RECURSIVE CaseVariants(_)
CaseVariants(w) ==
  IF w = <<>> THEN {<<>>}
  ELSE {<<c>> \o rest : c \in {Head(w), UpperChar(Head(w))},
                        rest \in CaseVariants(Tail(w))}

Pads == UNION {[1..n -> WS] : n \in 0..MaxPad}

\* The labels normalize_type is given: a missing value, and every spelling in
\* upper and lower case of the six synonyms and of two other labels, with
\* whitespace around it.
TypeInputs ==
  {NaN} \cup
  {StrV(l \o w \o r) :
     l \in Pads, r \in Pads,
     w \in UNION {CaseVariants(b) :
                    b \in {S_purchase, S_buy, S_bought, S_sale, S_sell, S_sold,
                           <<"g","i","f","t">>, <<"s","a","l","e","s">>}}}

NoFile == [exists |-> FALSE, headers |-> <<>>, rows |-> <<>>]

Idle ==
  /\ df = NoFrame
  /\ price_col = <<>>
  /\ cs2_df = <<>>
  /\ summary_json = NoSummary
  /\ bar_json = {}
  /\ line_json = {}
  /\ pie_json = <<>>
  /\ written = <<>>
  /\ exitCode = -1
  /\ error = ""
  /\ file = NoFile

TypeInit ==
  /\ Idle
  /\ pc = "type"
  /\ arg \in TypeInputs
  /\ res = NaN

\* line 45, for one value of the column
ApplyNormalizeType ==
  /\ pc = "type"
  /\ res' = normalize_type(arg)
  /\ pc' = "typed"
  /\ UNCHANGED <<file, df, price_col, cs2_df, summary_json, bar_json, line_json,
                 pie_json, written, exitCode, error, arg>>

SpecType == TypeInit /\ [][ApplyNormalizeType]_vars

\* ------------------------------------------------------------------ header cleaning on its own
HeaderChars == {" ", "\"", "'", "a"}

HeaderInputs == UNION {[1..n -> HeaderChars] : n \in 0..MaxHdrLen}

HeaderInit ==
  /\ Idle
  /\ pc = "header"
  /\ arg \in {StrV(h) : h \in HeaderInputs}
  /\ res = NaN

\* line 15, for one header
CleanHeader ==
  /\ pc = "header"
  /\ res' = StrV(NormalizeHeader(Str(arg)))
  /\ pc' = "cleaned"
  /\ UNCHANGED <<file, df, price_col, cs2_df, summary_json, bar_json, line_json,
                 pie_json, written, exitCode, error, arg>>

\* line 15 again, for the header the first pass returned
CleanHeaderAgain ==
  /\ pc = "cleaned"
  /\ arg' = res
  /\ res' = StrV(NormalizeHeader(Str(res)))
  /\ pc' = "recleaned"
  /\ UNCHANGED <<file, df, price_col, cs2_df, summary_json, bar_json, line_json,
                 pie_json, written, exitCode, error>>

HeaderNext == CleanHeader \/ CleanHeaderAgain

SpecHeader == HeaderInit /\ [][HeaderNext]_vars

\* ------------------------------------------------------------------ a whole run
\* What one run on the file f leaves behind: the contents of summary.json,
\* bar_data.json, line_data.json and pie_data.json (each as in the initial state
\* when it is not written), lines 7-154 in order.
Run(f) ==
  LET nothing == <<NoSummary, {}, {}, <<>>>>
      d == read_csv(f)
      columns == NormalizeColumns(d.columns)
      rs == FilterRows([d EXCEPT !.columns = columns], FindPriceCol(columns))
  IN  IF ~f.exists THEN nothing
      ELSE IF FindPriceCol(columns) = <<>> \/ missing_cols(columns) # <<>> THEN nothing
      ELSE IF ~HasValidTransactions(rs) THEN nothing
      ELSE IF BarRaises(rs) THEN <<Summary(rs), {}, {}, <<>>>>
      ELSE <<Summary(rs), bar_data(rs), line_data(rs),
             pie_data(Summary(rs).purchase_count, Summary(rs).sale_count)>>

\* ------------------------------------------------------------------ claims
\* The filter has run: cs2_df holds the rows that reach aggregation.
Filtered ==
  \/ pc \in {"filtered", "valid", "summary", "bar", "line", "pie"}
  \/ pc = "exited" /\ error \in {"", "NoValidTransactions", "KeyError"}

TypeIs(i, t) == Str(cs2_df[i].Type) = t

KnownType(i) == TypeIs(i, S_purchase) \/ TypeIs(i, S_sale)

Rows == 1..Len(cs2_df)

\* The sum of the prices of the rows of cs2_df with index in S.
RECURSIVE RefSum(_)
RefSum(S) ==
  IF S = {} THEN 0
  ELSE LET i == CHOOSE i \in S : TRUE IN cs2_df[i].Price.v + RefSum(S \ {i})

NothingDone ==
  /\ written = <<>>
  /\ summary_json = NoSummary
  /\ bar_json = {}
  /\ line_json = {}
  /\ pie_json = <<>>

\* C1: when the input file is missing, no header contains both "Price" and
\* "Cents", a required header is missing, or no filtered row is a purchase or a
\* sale, the run goes no further than the check that finds it, ends with exit
\* code 1, and has neither aggregated nor written any artifact.
C1_FatalConditionExitsBeforeAnyOutput ==
  LET cols == NormalizeColumns(file.headers)
      hasPrice == \E j \in 1..Len(cols) :
                    Contains(cols[j], S_Price) /\ Contains(cols[j], S_Cents)
      hasRequired == \A c \in {S_GameName, S_ActedOn, S_Type, S_MarketName} :
                       \E j \in 1..Len(cols) : cols[j] = c
      missingFile == ~file.exists
      badColumns == file.exists /\ (~hasPrice \/ ~hasRequired)
      noneValid == Filtered /\ ~\E i \in Rows : KnownType(i)
      exit1 == pc = "exited" => exitCode = 1
  IN  /\ missingFile => (NothingDone /\ pc \in {"start", "exited"} /\ exit1)
      /\ badColumns => (NothingDone /\ pc \in {"start", "loaded", "exited"} /\ exit1)
      /\ noneValid => (NothingDone /\ pc \in {"filtered", "exited"} /\ exit1)

\* A run that found rows of Counter-Strike 2, none of them a purchase or a sale,
\* and ended with exit code 1.
C1_Witness ==
  /\ pc = "exited"
  /\ exitCode = 1
  /\ error = "NoValidTransactions"
  /\ cs2_df # <<>>

\* C2: for every filtered dataset with at least one purchase or sale, the bar
\* data has exactly one record per category of the filtered rows, with spent the
\* sum of its purchase prices and earned the sum of its sale prices, 0 where
\* there is none; also when there is no sale row, or no purchase row, at all.
C2_BarDataForEveryValidDataset ==
  (pc = "exited" /\ \E i \in Rows : KnownType(i)) =>
    bar_json =
      {[Category |-> c,
        spent |-> RefSum({i \in Rows : categorize_item(cs2_df[i].MarketName) = c
                                        /\ TypeIs(i, S_purchase)}),
        earned |-> RefSum({i \in Rows : categorize_item(cs2_df[i].MarketName) = c
                                         /\ TypeIs(i, S_sale)})] :
       c \in {categorize_item(cs2_df[i].MarketName) : i \in Rows}}

\* The trimmed text of a label: from its first to its last character that is not
\* whitespace.
Trimmed(chars) ==
  LET ink == {i \in 1..Len(chars) : chars[i] \notin WS}
  IN  IF ink = {} THEN <<>>
      ELSE SubSeq(chars, CHOOSE i \in ink : \A k \in ink : i <= k,
                         CHOOSE i \in ink : \A k \in ink : k <= i)

\* chars spells the lower-case word w in some mix of upper and lower case.
Spells(chars, w) ==
  Len(chars) = Len(w) /\ \A i \in 1..Len(w) : chars[i] \in {w[i], UpperChar(w[i])}

\* C3 as claimed: a case variant of purchase, buy or bought yields "purchase", one
\* of sale, sell or sold yields "sale", a missing value yields null, and any
\* other value is returned identical to the input.
C3_OtherValuesUnchanged ==
  pc = "typed" =>
    IF IsNa(arg) THEN res = None
    ELSE IF \E w \in {S_purchase, S_buy, S_bought} : Spells(Str(arg), w)
         THEN res = StrV(S_purchase)
    ELSE IF \E w \in {S_sale, S_sell, S_sold} : Spells(Str(arg), w)
         THEN res = StrV(S_sale)
    ELSE res = arg

\* C3 amended: a missing value yields null; a label that, without the whitespace
\* around it, is a case variant of purchase, buy or bought yields "purchase", of
\* sale, sell or sold yields "sale"; any other label is returned without the
\* whitespace around it and in lower case.
C3_OtherValuesTrimmedAndLowered ==
  pc = "typed" =>
    IF IsNa(arg) THEN res = None
    ELSE IF \E w \in {S_purchase, S_buy, S_bought} : Spells(Trimmed(Str(arg)), w)
         THEN res = StrV(S_purchase)
    ELSE IF \E w \in {S_sale, S_sell, S_sold} : Spells(Trimmed(Str(arg)), w)
         THEN res = StrV(S_sale)
    ELSE /\ res.kind = "str"
         /\ Len(res.s) = Len(Trimmed(Str(arg)))
         /\ \A i \in 1..Len(res.s) :
              /\ Trimmed(Str(arg))[i] \in {res.s[i], UpperChar(res.s[i])}
              /\ res.s[i] = LowerChar(res.s[i])

\* A label that is no synonym, written with an upper-case letter, has been
\* normalised: the result differs from the input and is neither purchase nor sale.
C3_Witness ==
  /\ pc = "typed"
  /\ ~IsNa(arg)
  /\ res # arg
  /\ res \notin {StrV(S_purchase), StrV(S_sale)}
  /\ Trimmed(Str(arg)) = Str(arg)

\* A row of the file (its fields in the column order of HeaderChoices) that is
\* not of Counter-Strike 2, or has a price that is no number, a date that does not
\* parse, or no type, date or item name.
ExcludedRow(r) ==
  \/ r[1] # S_CS2
  \/ ~ParseNum(r[5], ",").ok
  \/ IsNa(ParseDate(r[2]))
  \/ r[2] = <<>>
  \/ r[3] = <<>>
  \/ r[4] = <<>>

\* C4: a row that is not of Counter-Strike 2, has a price that is not numeric, a
\* date that does not parse, or no type, date or item name, contributes to no
\* output: the run leaves behind what a run on the file without such rows does.
C4_ExcludedRowsChangeNothing ==
  pc = "exited" =>
    <<summary_json, bar_json, line_json, pie_json>> =
      Run([file EXCEPT !.rows = SelectSeq(@, LAMBDA r : ~ExcludedRow(r))])

C6_CountsAndItemDetails ==
  summary_json # NoSummary =>
    /\ summary_json.purchase_count = Cardinality({i \in Rows : TypeIs(i, S_purchase)})
    /\ summary_json.sale_count = Cardinality({i \in Rows : TypeIs(i, S_sale)})
    /\ summary_json.purchase_count + summary_json.sale_count
         = Cardinality({i \in Rows : KnownType(i)})
    /\ \A i \in Rows :
         \E item \in summary_json.item_details :
           LET same == {k \in Rows : cs2_df[k].MarketName = cs2_df[i].MarketName}
           IN  /\ item.MarketName = Str(cs2_df[i].MarketName)
               /\ item.transaction_count = Cardinality(same)
               /\ item.total_eur = RefSum(same)
               /\ Str(cs2_df[i].Type) \in DOMAIN item.type_breakdown
               /\ item.type_breakdown[Str(cs2_df[i].Type)]
                    = Cardinality({k \in same : cs2_df[k].Type = cs2_df[i].Type})
    /\ pie_json # <<>> =>
         /\ Len(pie_json) = 2
         /\ pie_json[1] = [name |-> "Purchases",
                           value |-> Cardinality({i \in Rows : TypeIs(i, S_purchase)})]
         /\ pie_json[2] = [name |-> "Sales",
                           value |-> Cardinality({i \in Rows : TypeIs(i, S_sale)})]

\* A complete run over rows one of which is neither a purchase nor a sale.
C6_Witness ==
  /\ pc = "exited"
  /\ exitCode = 0
  /\ \E i \in Rows : ~KnownType(i)

Categories == {"Capsules", "Cases", "Charms", "Stickers", "Weapons"}

\* C7: every item name of a filtered row has exactly one of the five categories,
\* the first of Capsule, Case, Charm, Sticker its name contains and Weapons when
\* it contains none, and every record of the bar data has a category of the five.
C7_CategoryByOrderedMatch ==
  Filtered =>
    /\ \A i \in Rows :
         LET name == Str(cs2_df[i].MarketName)
             c == categorize_item(cs2_df[i].MarketName)
             capsule == Contains(name, S_Capsule)
             case == Contains(name, S_Case)
             charm == Contains(name, S_Charm)
             sticker == Contains(name, S_Sticker)
         IN  /\ c \in Categories
             /\ (c = "Capsules") <=> capsule
             /\ (c = "Cases") <=> (~capsule /\ case)
             /\ (c = "Charms") <=> (~capsule /\ ~case /\ charm)
             /\ (c = "Stickers") <=> (~capsule /\ ~case /\ ~charm /\ sticker)
             /\ (c = "Weapons") <=> (~capsule /\ ~case /\ ~charm /\ ~sticker)
    /\ \A rec \in bar_json :
         /\ rec.Category \in Categories
         /\ \E i \in Rows : categorize_item(cs2_df[i].MarketName) = rec.Category

\* A complete run whose bar data has the record of Capsules for an item whose
\* name contains both "Case" and "Capsule".
C7_Witness ==
  /\ exitCode = 0
  /\ \E i \in Rows :
       /\ Contains(Str(cs2_df[i].MarketName), S_Capsule)
       /\ Contains(Str(cs2_df[i].MarketName), S_Case)
  /\ \E rec \in bar_json : rec.Category = "Capsules"
  /\ ~\E rec \in bar_json : rec.Category = "Cases"

\* C8: cleaning a header that has been cleaned returns it unchanged.
C8_HeaderCleaningIdempotent == pc = "recleaned" => res = arg

\* The price of row i of the frame, as read_csv loaded it.
LoadedPrice(i) == df.rows[i][ColIndex(df.columns, price_col)]

\* The loaded price is a number, or a text that pd.to_numeric reads as one.
Coerces(val) == val.kind = "num" \/ (val.kind = "str" /\ ParseNum(val.s, ".").ok)

\* C9 as claimed: every row that reaches aggregation has a numeric price that is
\* not negative.
C9_PricesNumericNonNegative ==
  Filtered => \A i \in Rows : cs2_df[i].Price.kind = "num" /\ cs2_df[i].Price.v >= 0

\* C9 amended: every row that reaches aggregation has a numeric price, the number
\* its field holds (of either sign); a row whose price fails coercion is not
\* among them, and none has a price that was put in its place.
C9_PricesNumericNotDefaulted ==
  Filtered =>
    /\ \A i \in Rows :
         /\ cs2_df[i].Price.kind = "num"
         /\ Coerces(LoadedPrice(cs2_df[i].idx))
         /\ LoadedPrice(cs2_df[i].idx).kind = "num"
              => cs2_df[i].Price.v = LoadedPrice(cs2_df[i].idx).v
         /\ LoadedPrice(cs2_df[i].idx).kind = "str"
              => cs2_df[i].Price.v = ParseNum(LoadedPrice(cs2_df[i].idx).s, ".").v
    /\ \A k \in 1..Len(df.rows) :
         ~Coerces(LoadedPrice(k)) => ~\E i \in Rows : cs2_df[i].idx = k

\* The summary was written over rows of which one, of Counter-Strike 2 and with a
\* price that failed coercion, was left out.
C9_Witness ==
  /\ pc = "summary"
  /\ \E k \in 1..Len(df.rows) :
       /\ df.rows[k][ColIndex(df.columns, S_GameName)] = StrV(S_CS2)
       /\ LoadedPrice(k).kind = "str"
       /\ ~Coerces(LoadedPrice(k))
       /\ ~\E i \in Rows : cs2_df[i].idx = k

\* C10: a run ends either with exit code 1 and no artifact written, or with exit
\* code 0 and summary.json, bar_data.json, line_data.json, pie_data.json and
\* index.html written in that order.
C10_AllOrNothing ==
  pc = "exited" =>
    \/ exitCode = 1 /\ written = <<>>
    \/ /\ exitCode = 0
       /\ written = <<"summary.json", "bar_data.json", "line_data.json",
                      "pie_data.json", "index.html">>

====
